---- MODULE Spec2Model ----
(***************************************************************************)
(* Model of src/tracker_solver.py: the module-level set-up that creates    *)
(* cones.csv when it is absent, and solve_track(): load, split by colour,  *)
(* centre, angular sort, midpoints, loop closure and the frame-by-frame    *)
(* animation of the particle.                                              *)
(*                                                                         *)
(* Numbers.  Coordinates are integers (even, so that /2 is exact, as it is *)
(* in float64).  A float cell of a pandas Series is <<v>> for the number v *)
(* and <<>> for NaN.  A mean is kept as the exact fraction num/den, den=0  *)
(* being the NaN mean of an empty column.  An angle arctan2(dy, dx) is     *)
(* kept as the vector <<dy, dx>> it is taken of, and two angles are        *)
(* compared exactly (AngleLT, AngleEQ) over the range (-pi, pi].           *)
(***************************************************************************)
EXTENDS Integers, Sequences, FiniteSets, TLC

VARIABLES
    file_exists,    \* os.path.exists('cones.csv')
    file_rows,      \* the data rows of cones.csv when it exists
    origin,         \* what the file was when the program started
    wrote,          \* the set-up has called to_csv
    removed,        \* cones.csv was deleted between set-up and load
    pc,             \* position of the program
    df,             \* the loaded frame
    center_x, center_y,
    blue_cones, yellow_cones,
    blue_sorted, yellow_sorted,
    mid_x, mid_y,
    error,          \* the exception that ended solve_track, "none" otherwise
    frame,          \* next index of the frame iterator range(len(mid_x))
    calls,          \* frame indices update was called with in this pass
    particle        \* data of the particle artist

vars == <<file_exists, file_rows, origin, wrote, removed, pc, df,
          center_x, center_y, blue_cones, yellow_cones, blue_sorted,
          yellow_sorted, mid_x, mid_y, error, frame, calls, particle>>

\* ------------------------------------------------------------ bounds
\* Longest cones.csv (in data rows) that exists before the program starts.
MaxRows == 4

\* Coordinates of the cones in such a file.
Coords == {0, 2}

Colors == {"blue", "yellow"}

\* ------------------------------------------------------------ numbers
NaN == <<>>

Num(v) == <<v>>

IsNaN(c) == c = NaN

\* float ==: NaN equals nothing, itself included
FloatEq(a, b) == ~IsNaN(a) /\ ~IsNaN(b) /\ a = b

RECURSIVE SumOf(_, _)
SumOf(s, col) ==
    IF s = <<>> THEN 0
    ELSE (IF col = "x" THEN Head(s).x ELSE Head(s).y) + SumOf(Tail(s), col)

\* Series.mean(): the exact fraction; den = 0 is the NaN of an empty column
mean(frm, col) == [num |-> SumOf(frm, col), den |-> Len(frm)]

\* ------------------------------------------------------------ angles
\* np.arctan2(y - cy, x - cx) for cx, cy fractions: the vector is scaled by
\* the (positive) denominators, which leaves its angle unchanged.  Around a
\* NaN centre every angle is NaN.
get_angle_swapped(x, y, cx, cy) ==
    IF cx.den = 0 \/ cy.den = 0 THEN NaN
    ELSE <<cx.den * x - cx.num, cy.den * y - cy.num>>

get_angle(x, y, cx, cy) ==
    IF cx.den = 0 \/ cy.den = 0 THEN NaN
    ELSE <<cy.den * y - cy.num, cx.den * x - cx.num>>

\* Where arctan2(dy, dx) lies: 0 for (-pi, 0), 1 for 0 (arctan2(0, 0) = 0
\* included), 2 for (0, pi), 3 for pi.
Sector(a) ==
    IF a[1] < 0 THEN 0
    ELSE IF a[1] > 0 THEN 2
    ELSE IF a[2] >= 0 THEN 1 ELSE 3

Cross(a, b) == a[2] * b[1] - a[1] * b[2]

\* a < b on two angles; as on floats, a comparison with NaN is false
AngleLT(a, b) ==
    /\ ~IsNaN(a)
    /\ ~IsNaN(b)
    /\ \/ Sector(a) < Sector(b)
       \/ /\ Sector(a) = Sector(b)
          /\ Sector(a) \in {0, 2}
          /\ Cross(a, b) > 0

AngleEQ(a, b) == ~IsNaN(a) /\ ~IsNaN(b) /\ ~AngleLT(a, b) /\ ~AngleLT(b, a)

\* ------------------------------------------------------------ set-up
\* theta = np.linspace(0, 2*pi, n, endpoint=False), scaled from n = 50 to
\* the two bearings 0 and pi, whose cosine and sine are integers.
theta == <<0, 1>>

cos(t) == IF t = 0 THEN 1 ELSE -1

sin(t) == 0

r_blue == 10

r_yellow == 16

\* the rows appended to data (lines 27-31); the noise term is taken as 0
data ==
    [i \in 1..Len(theta) |->
        [x |-> r_blue * cos(theta[i]), y |-> r_blue * sin(theta[i]), color |-> "blue"]]
    \o
    [i \in 1..Len(theta) |->
        [x |-> r_yellow * cos(theta[i]), y |-> r_yellow * sin(theta[i]), color |-> "yellow"]]

\* df_mock.sample(frac=1).reset_index(drop=True): any order of the rows
sample(rows) ==
    { [i \in 1..Len(rows) |-> rows[p[i]]] : p \in Permutations(1..Len(rows)) }

\* ------------------------------------------------------------ inputs
Row == [x : Coords, y : Coords, color : Colors]

UserFiles == UNION { [1..n -> Row] : n \in 0..MaxRows }

\* Scenario A of the design: four cones per class at bearings 0, 90, 180 and
\* 270 degrees, radius 10 (blue) and 16 (yellow), around the origin.
Bearing(r, k, c) ==
    [x |-> r * (CASE k = 0 -> 1 [] k = 2 -> -1 [] OTHER -> 0),
     y |-> r * (CASE k = 1 -> 1 [] k = 3 -> -1 [] OTHER -> 0),
     color |-> c]

ScenarioA ==
    [i \in 1..4 |-> Bearing(r_blue, i - 1, "blue")] \o
    [i \in 1..4 |-> Bearing(r_yellow, i - 1, "yellow")]

Rotate(s, k) == [i \in 1..Len(s) |-> s[((i - 1 + k) % Len(s)) + 1]]

Reverse(s) == [i \in 1..Len(s) |-> s[Len(s) + 1 - i]]

\* Scenario A as an unordered input: every rotation of the rows, forwards
\* and backwards, and the two classes interleaved.
ScenarioFiles ==
    { Rotate(ScenarioA, k) : k \in 0..7 } \cup
    { Rotate(Reverse(ScenarioA), k) : k \in 0..7 } \cup
    { [i \in 1..8 |-> ScenarioA[IF i % 2 = 1 THEN (i + 1) \div 2 ELSE 4 + i \div 2]] }

\* ------------------------------------------------------------ frames
\* pd.read_csv: the rows under a RangeIndex (kept in the field row)
read_csv(rows) ==
    [i \in 1..Len(rows) |->
        [row |-> i, x |-> rows[i].x, y |-> rows[i].y, color |-> rows[i].color]]

\* df[df['color'] == c].copy()
select_color(frm, c) == SelectSeq(frm, LAMBDA r : r.color = c)

\* cones['angle'] = cones.apply(lambda row: get_angle(...), axis=1)
with_angle(cones, cx, cy) ==
    [i \in 1..Len(cones) |->
        [row |-> cones[i].row, x |-> cones[i].x, y |-> cones[i].y,
         color |-> cones[i].color,
         angle |-> get_angle(cones[i].x, cones[i].y, cx, cy)]]

IsSortedBy(cones, p) ==
    \A i, j \in 1..Len(cones) :
        i < j => ~AngleLT(cones[p[j]].angle, cones[p[i]].angle)

\* cones.sort_values('angle').reset_index(drop=True).  sort_values sorts with
\* its default kind='quicksort', which is not a stable sort: rows of equal
\* angle may come out in any order, so every ascending arrangement is a
\* possible result.  All-NaN angles (empty frame) leave nothing to order.
sort_values_unique(cones) ==
    { SelectSeq([i \in 1..Len(cones) |-> cones[p[i]]],
                LAMBDA r : \A k \in 1..Len(cones) :
                    AngleEQ(cones[k].angle, r.angle) => cones[k].row >= r.row) :
        p \in { q \in Permutations(1..Len(cones)) : IsSortedBy(cones, q) } }

sort_values(cones) ==
    { [i \in 1..Len(cones) |-> cones[p[i]]] :
        p \in { q \in Permutations(1..Len(cones)) : IsSortedBy(cones, q) } }

\* (a['x'] + b['x']) / 2 on two Series indexed 0..len-1: pandas aligns the
\* operands on the union of their indexes, NaN where either has no row.
MaxOf(a, b) == IF a >= b THEN a ELSE b

midpoints(a, b, col) ==
    [i \in 1..MaxOf(Len(a), Len(b)) |->
        IF i <= Len(a) /\ i <= Len(b)
        THEN Num(((IF col = "x" THEN a[i].x ELSE a[i].y)
                  + (IF col = "x" THEN b[i].x ELSE b[i].y)) \div 2)
        ELSE NaN]

\* pd.concat([mid, mid.iloc[[0]]], ignore_index=True)
close_loop(mid) == Append(mid, mid[1])

\* ------------------------------------------------------------ program
NoMean == [num |-> 0, den |-> 0]

Init ==
    /\ \/ /\ file_exists = FALSE
          /\ file_rows = <<>>
       \/ /\ file_exists = TRUE
          /\ file_rows \in UserFiles \cup ScenarioFiles
    /\ origin = [exists |-> file_exists, rows |-> file_rows]
    /\ wrote = FALSE
    /\ removed = FALSE
    /\ pc = "start"
    /\ df = <<>>
    /\ center_x = NoMean
    /\ center_y = NoMean
    /\ blue_cones = <<>>
    /\ yellow_cones = <<>>
    /\ blue_sorted = <<>>
    /\ yellow_sorted = <<>>
    /\ mid_x = <<>>
    /\ mid_y = <<>>
    /\ error = "none"
    /\ frame = 0
    /\ calls = <<>>
    /\ particle = <<>>

solve_vars == <<df, center_x, center_y, blue_cones, yellow_cones, blue_sorted,
                yellow_sorted, mid_x, mid_y, error, frame, calls, particle>>

\* lines 11-35: create the dummy file only when cones.csv does not exist
Setup_always ==
    /\ pc = "start"
    /\ \E shuffled \in sample(data) :
          /\ file_rows' = shuffled
          /\ file_exists' = TRUE
          /\ wrote' = TRUE
    /\ pc' = "setup_done"
    /\ UNCHANGED <<origin, removed>>
    /\ UNCHANGED solve_vars

Setup ==
    /\ pc = "start"
    /\ IF ~file_exists
       THEN \E shuffled \in sample(data) :
               /\ file_rows' = shuffled
               /\ file_exists' = TRUE
               /\ wrote' = TRUE
       ELSE UNCHANGED <<file_rows, file_exists, wrote>>
    /\ pc' = "setup_done"
    /\ UNCHANGED <<origin, removed>>
    /\ UNCHANGED solve_vars

\* the environment deletes cones.csv after the set-up, before read_csv
Unlink ==
    /\ pc = "setup_done"
    /\ file_exists
    /\ file_exists' = FALSE
    /\ file_rows' = <<>>
    /\ removed' = TRUE
    /\ UNCHANGED <<origin, wrote, pc>>
    /\ UNCHANGED solve_vars

\* lines 43-47: read_csv, or "Error: cones.csv not found!" and return.  A file
\* that exists holds the header line and its data rows (none, for an empty
\* point set).
Load ==
    /\ pc = "setup_done"
    /\ IF file_exists
       THEN /\ df' = read_csv(file_rows)
            /\ pc' = "loaded"
       ELSE /\ df' = df
            /\ pc' = "not_found"
    /\ UNCHANGED <<file_exists, file_rows, origin, wrote, removed>>
    /\ UNCHANGED <<center_x, center_y, blue_cones, yellow_cones, blue_sorted,
                   yellow_sorted, mid_x, mid_y, error, frame, calls, particle>>

\* lines 55-56
track_center_blue(frm, col) == mean(select_color(frm, "blue"), col)

track_center(frm, col) == mean(frm, col)

\* lines 49-70: split by colour, centre, angles, sort
Order ==
    /\ pc = "loaded"
    /\ center_x' = track_center(df, "x")
    /\ center_y' = track_center(df, "y")
    /\ blue_cones' = with_angle(select_color(df, "blue"), center_x', center_y')
    /\ yellow_cones' = with_angle(select_color(df, "yellow"), center_x', center_y')
    /\ blue_sorted' \in sort_values(blue_cones')
    /\ yellow_sorted' \in sort_values(yellow_cones')
    /\ pc' = "sorted"
    /\ UNCHANGED <<file_exists, file_rows, origin, wrote, removed, df,
                   mid_x, mid_y, error, frame, calls, particle>>

\* lines 77-82: midpoints of the two frames a and b, then the closing copy
\* of midpoint 0.  On an empty Series mid_x.iloc[[0]] raises IndexError, which
\* nothing catches.
BuildCenterline(a, b) ==
    /\ pc = "sorted"
    /\ LET mx == midpoints(a, b, "x")
           my == midpoints(a, b, "y")
       IN  IF Len(mx) = 0
           THEN /\ mid_x' = mx
                /\ mid_y' = my
                /\ error' = "IndexError"
                /\ pc' = "raised"
           ELSE /\ mid_x' = close_loop(mx)
                /\ mid_y' = close_loop(my)
                /\ error' = error
                /\ pc' = "closed"
    /\ UNCHANGED <<file_exists, file_rows, origin, wrote, removed, df,
                   center_x, center_y, blue_cones, yellow_cones, blue_sorted,
                   yellow_sorted, frame, calls, particle>>

Centerline_unsorted == BuildCenterline(blue_cones, yellow_cones)

Centerline == BuildCenterline(blue_sorted, yellow_sorted)

\* line 114: FuncAnimation(fig, update, frames=len(mid_x)) iterates
\* range(len(mid_x))
frames_open(mx) == Len(mx) - 1

frames(mx) == Len(mx)

\* lines 99 and 114: the particle starts with no data, the animation starts
Animate ==
    /\ pc = "closed"
    /\ particle' = <<>>
    /\ frame' = 0
    /\ calls' = <<>>
    /\ pc' = "playing"
    /\ UNCHANGED <<file_exists, file_rows, origin, wrote, removed, df,
                   center_x, center_y, blue_cones, yellow_cones, blue_sorted,
                   yellow_sorted, mid_x, mid_y, error>>

\* lines 104-109: update(frame) reads mid_x.iloc[frame], mid_y.iloc[frame]
iloc(series, k) == series[k + 1]

update(k) == <<iloc(mid_x, k), iloc(mid_y, k)>>

\* one frame of a pass: the iterator hands the next index to update
Update ==
    /\ pc = "playing"
    /\ frame < frames(mid_x)
    /\ particle' = update(frame)
    /\ calls' = Append(calls, frame)
    /\ frame' = frame + 1
    /\ UNCHANGED <<file_exists, file_rows, origin, wrote, removed, pc, df,
                   center_x, center_y, blue_cones, yellow_cones, blue_sorted,
                   yellow_sorted, mid_x, mid_y, error>>

\* the frame iterator is exhausted: the animation repeats from frame 0
\* (ani.save is one pass, plt.show() replays the loop)
Repeat ==
    /\ pc = "playing"
    /\ frame = frames(mid_x)
    /\ frame' = 0
    /\ calls' = <<>>
    /\ UNCHANGED <<file_exists, file_rows, origin, wrote, removed, pc, df,
                   center_x, center_y, blue_cones, yellow_cones, blue_sorted,
                   yellow_sorted, mid_x, mid_y, error, particle>>

Next ==
    \/ Setup
    \/ Unlink
    \/ Load
    \/ Order
    \/ Centerline
    \/ Animate
    \/ Update
    \/ Repeat

Spec == Init /\ [][Next]_vars

\* ------------------------------------------------------------ properties
Ordered == pc \in {"sorted", "closed", "raised", "playing"}

Built == pc \in {"closed", "playing"}

Count(c) == Cardinality({ i \in 1..Len(df) : df[i].color = c })

MinOf(a, b) == IF a <= b THEN a ELSE b

Pairs == MinOf(Count("blue"), Count("yellow"))

\* cell k of a centerline column is the midpoint of rank k of both boundaries
IsMidpoint(k) ==
    /\ k <= Len(blue_sorted)
    /\ k <= Len(yellow_sorted)
    /\ mid_x[k] = Num((blue_sorted[k].x + yellow_sorted[k].x) \div 2)
    /\ mid_y[k] = Num((blue_sorted[k].y + yellow_sorted[k].y) \div 2)

\* C1 (as claimed): with unequal class counts (both classes present) the
\* centerline has exactly min(|A|,|B|)+1 points, none with an undefined
\* coordinate, the first min(|A|,|B|) of them midpoints of rank-matched pairs.
C1_TruncatesToShorter ==
    (Built /\ Count("blue") # Count("yellow") /\ Pairs >= 1) =>
        /\ Len(mid_x) = Pairs + 1
        /\ Len(mid_y) = Pairs + 1
        /\ \A k \in 1..Len(mid_x) : ~IsNaN(mid_x[k]) /\ ~IsNaN(mid_y[k])
        /\ \A k \in 1..Pairs : IsMidpoint(k)

\* the angle sort kept rows of equal angle in their input order
StableOrder(sorted) ==
    \A i, j \in 1..Len(sorted) :
        (i < j /\ AngleEQ(sorted[i].angle, sorted[j].angle))
            => sorted[i].row < sorted[j].row

\* C2 (as claimed): two points of one class with an identical angle keep
\* their relative input order in the sorted boundary.
C2_SortIsStable ==
    Ordered => StableOrder(blue_sorted) /\ StableOrder(yellow_sorted)

\* C3 (as claimed): with N >= 1 matched pairs the centerline has exactly N+1
\* points and its last point equals its first exactly.
C3_ClosedWithNPlusOne ==
    (Built /\ Pairs >= 1) =>
        /\ Len(mid_x) = Pairs + 1
        /\ Len(mid_y) = Pairs + 1
        /\ FloatEq(mid_x[Len(mid_x)], mid_x[1])
        /\ FloatEq(mid_y[Len(mid_y)], mid_y[1])

Loaded == pc \in {"loaded", "sorted", "closed", "raised", "playing"}

\* C4 (as claimed): an empty point set fails with EmptyInputError at once:
\* the run never gets as far as a centre or an ordering, and the error that
\* ends it is EmptyInputError.
C4_EmptyInputError ==
    (Loaded /\ df = <<>>) =>
        /\ pc \in {"loaded", "raised"}
        /\ pc = "raised" => error = "EmptyInputError"

\* the frame holds exactly the eight cones of Scenario A, in any order
IsScenarioA ==
    /\ Len(df) = 8
    /\ \A k \in 1..8 : \E i \in 1..8 :
          /\ df[i].x = ScenarioA[k].x
          /\ df[i].y = ScenarioA[k].y
          /\ df[i].color = ScenarioA[k].color

\* the sorted blue boundary is the radius-10 cones at these bearings, and the
\* centerline the radius-13 points at the same bearings plus the first again
ScenarioOrder(ks) ==
    /\ Len(blue_sorted) = 4
    /\ \A i \in 1..4 :
          /\ blue_sorted[i].x = Bearing(r_blue, ks[i], "blue").x
          /\ blue_sorted[i].y = Bearing(r_blue, ks[i], "blue").y
    /\ Len(mid_x) = 5
    /\ Len(mid_y) = 5
    /\ \A i \in 1..4 :
          /\ mid_x[i] = Num(Bearing((r_blue + r_yellow) \div 2, ks[i], "blue").x)
          /\ mid_y[i] = Num(Bearing((r_blue + r_yellow) \div 2, ks[i], "blue").y)
    /\ mid_x[5] = mid_x[1]
    /\ mid_y[5] = mid_y[1]

\* C5 (as claimed): on Scenario A the blue boundary is sorted into the bearing
\* order 0, 90, 180, 270 degrees and the centerline follows that order.
C5_ScenarioFromZero == (Built /\ IsScenarioA) => ScenarioOrder(<<0, 1, 2, 3>>)

\* C5 (amended): on Scenario A the blue boundary is sorted into the bearing
\* order 270, 0, 90, 180 degrees (angles -pi/2, 0, pi/2, pi) and the
\* centerline is the four radius-13 midpoints in that order plus the first
\* again, five points.
C5_ScenarioFromMinusHalfPi == (Built /\ IsScenarioA) => ScenarioOrder(<<3, 0, 1, 2>>)

C5_Witness ==
    /\ pc = "closed"
    /\ IsScenarioA
    /\ df[1].color = "yellow"
    /\ Len(mid_x) = 5

\* sorted holds each row of df of colour c once, unchanged, and nothing else
IsPermutationOfClass(sorted, c) ==
    /\ Len(sorted) = Count(c)
    /\ \A i \in 1..Len(df) :
          df[i].color = c =>
              Cardinality({ k \in 1..Len(sorted) : sorted[k].row = i }) = 1
    /\ \A k \in 1..Len(sorted) :
          /\ sorted[k].row \in 1..Len(df)
          /\ sorted[k].x = df[sorted[k].row].x
          /\ sorted[k].y = df[sorted[k].row].y
          /\ sorted[k].color = c
          /\ df[sorted[k].row].color = c

\* C6: each sorted boundary is a permutation of the input points of its
\* class: same length, no point dropped, duplicated or created.
C6_SortedIsPermutation ==
    Ordered =>
        /\ IsPermutationOfClass(blue_sorted, "blue")
        /\ IsPermutationOfClass(yellow_sorted, "yellow")

C6_Witness ==
    /\ pc = "sorted"
    /\ Len(blue_sorted) = 2
    /\ Len(yellow_sorted) = 2
    /\ AngleEQ(blue_sorted[1].angle, blue_sorted[2].angle)
    /\ blue_sorted[1].row > blue_sorted[2].row

\* the angle of row r around the point (sx/n, sy/n)
AngleAround(r, sx, sy, n) == <<n * r.y - sy, n * r.x - sx>>

\* the angle of a point around the mean of all points of df, both classes
AngleAroundMean(r) == AngleAround(r, SumOf(df, "x"), SumOf(df, "y"), Len(df))

Ascending(sorted) ==
    LET sx == SumOf(df, "x")
        sy == SumOf(df, "y")
        n  == Len(df)
    IN  \A i \in 1..Len(sorted) : \A j \in (i + 1)..Len(sorted) :
            ~AngleLT(AngleAround(sorted[j], sx, sy, n), AngleAround(sorted[i], sx, sy, n))

\* C7: for all ranks i < j of a sorted boundary angle[i] <= angle[j], the
\* angles being arctan2(y - cy, x - cx) around the mean of all input points.
C7_AscendingAroundMean ==
    Ordered => Ascending(blue_sorted) /\ Ascending(yellow_sorted)

C7_Witness ==
    /\ pc = "sorted"
    /\ Len(blue_sorted) = 2
    /\ Len(yellow_sorted) = 2
    /\ AngleLT(AngleAroundMean(blue_sorted[1]), AngleAroundMean(blue_sorted[2]))
    /\ blue_sorted[1].row > blue_sorted[2].row
    /\ Sector(AngleAroundMean(blue_sorted[2])) = 3

\* C8: with equal class counts N, centerline point i is the midpoint of the
\* rank-i blue and the rank-i yellow point of the sorted boundaries, for
\* every rank i of 1..N.
C8_MidpointsByRank ==
    (Built /\ Count("blue") = Count("yellow")) =>
        \A k \in 1..Count("blue") : IsMidpoint(k)

C8_Witness ==
    /\ pc = "closed"
    /\ Count("blue") = 2
    /\ Count("yellow") = 2
    /\ blue_sorted[1].row > blue_sorted[2].row
    /\ yellow_sorted[1].row < yellow_sorted[2].row
    /\ mid_x[1] # mid_x[2]

\* C9: a cones.csv that exists at the start is never written or replaced,
\* dummy data is written only when it was absent; after the set-up the file
\* exists unless it was deleted since; the not-found branch is taken only
\* after such a deletion, and then nothing is built or animated.
C9_FileLeftAlone ==
    /\ wrote => ~origin.exists
    /\ (origin.exists /\ file_exists) => file_rows = origin.rows
    /\ (pc # "start" /\ ~removed) => file_exists
    /\ pc = "not_found" =>
          /\ removed
          /\ df = <<>>
          /\ blue_sorted = <<>>
          /\ yellow_sorted = <<>>
          /\ mid_x = <<>>
          /\ mid_y = <<>>
          /\ calls = <<>>
          /\ particle = <<>>

C9_Witness ==
    /\ pc = "not_found"
    /\ origin.exists
    /\ Len(origin.rows) = 2
    /\ ~wrote

\* within a pass the calls so far are 0, 1, ..., frame-1, each within bounds,
\* and the particle is at the centerline point of the last call
EachFrame ==
    pc = "playing" =>
        /\ Len(calls) = frame
        /\ frame <= Len(mid_x)
        /\ Len(mid_x) = Len(mid_y)
        /\ \A k \in 1..Len(calls) : calls[k] = k - 1
        /\ frame >= 1 => particle = <<mid_x[frame], mid_y[frame]>>
        /\ frame = Len(mid_x) => particle = <<mid_x[1], mid_y[1]>>

\* a pass ends only after update was called with every index 0..N
WholePass ==
    (pc = "playing" /\ calls # <<>> /\ calls' = <<>>)
        => calls = [k \in 1..Len(mid_x) |-> k - 1]

\* C10: within a pass update is called with the frame indices 0, 1, ..., N in
\* order (N+1 = length of the closed centerline), each within bounds; each
\* call leaves the particle at centerline point `frame`; at the last frame
\* the particle is where it was at frame 0.
C10_FramesInOrder == []EachFrame /\ [][WholePass]_vars

C10_Witness ==
    /\ pc = "playing"
    /\ Len(mid_x) = 3
    /\ frame = 3
    /\ calls = <<0, 1, 2>>
    /\ mid_x[1] # mid_x[2]
    /\ ~IsNaN(mid_x[2])

====
